---------------------------- MODULE Spec2Model ----------------------------
(* Model of icon_generator.py: the Task Driver (main), the Orchestrator   *)
(* task (create_icon / icon_creator.run) with its two tools               *)
(* (consult_style_expert, generate_icon_image), the Stylist run and the   *)
(* image pipeline with the output directory.                              *)
(*                                                                        *)
(* Text is a sequence of one-character strings.  The language model that  *)
(* drives icon_creator.run is an input of the program: which tool it      *)
(* calls next, with which argument, and when it answers with final text   *)
(* are chosen with \E; the tool calls of one run are executed one at a    *)
(* time.                                                                  *)
EXTENDS Integers, Sequences, FiniteSets, TLC

(* ------------------------------ bounds -------------------------------- *)
\* largest --count given on the command line
MaxCount == 2
\* largest number of tool calls the language model makes in one run
MaxCalls == 2
\* largest length of the generated texts of SpecText
MaxText == 2

(* ------------------------- program constants -------------------------- *)
\* description[:30]
DescCap == 30
\* image.resize((128, 128), ...)
IconSize == 128

(* ------------------------------- text --------------------------------- *)
Lower == {"a","b","c","d","e","f","g","h","i","j","k","l","m",
          "n","o","p","q","r","s","t","u","v","w","x","y","z"}
Upper == {"A","B","C","D","E","F","G","H","I","J","K","L","M",
          "N","O","P","Q","R","S","T","U","V","W","X","Y","Z"}
Digit == {"0","1","2","3","4","5","6","7","8","9"}

\* the characters matched by \w
IsWord(c) == c \in Lower \cup Upper \cup Digit \cup {"_"}

\* the characters matched by \s, and removed by str.strip()
IsSpace(c) == c \in {" ", "\t", "\n", "\r", "\f"}

\* a character that is NOT matched by [^\w\s-], so re.sub keeps it
KeepAlnumOnly(c) == c \in Lower \cup Upper \cup Digit \/ IsSpace(c) \/ c = "-"
Keep(c) == IsWord(c) \/ IsSpace(c) \/ c = "-"

\* re.sub(r"[^\w\s-]", "", s)
ReSub(s) == SelectSeq(s, Keep)

RECURSIVE LStrip(_)
LStrip(s) == IF s # <<>> /\ IsSpace(Head(s)) THEN LStrip(Tail(s)) ELSE s

RECURSIVE RStrip(_)
RStrip(s) == IF s # <<>> /\ IsSpace(s[Len(s)])
             THEN RStrip(SubSeq(s, 1, Len(s) - 1)) ELSE s

\* str.strip()
Strip(s) == RStrip(LStrip(s))

\* str.replace(" ", "_")
ReplaceSpaceNone(s) == s
ReplaceSpace(s) == [k \in 1..Len(s) |-> IF s[k] = " " THEN "_" ELSE s[k]]

\* s[:n]
Prefix(s, n) == SubSeq(s, 1, IF Len(s) < n THEN Len(s) ELSE n)

\* safe_style = re.sub(...).strip().replace(" ", "_")
SafeStyle(s) == ReplaceSpace(Strip(ReSub(s)))

\* safe_desc = re.sub(...)[:30].strip().replace(" ", "_")
SafeDescReplaceFirst(d) == Strip(Prefix(ReplaceSpace(ReSub(d)), DescCap))
SafeDescCutFirst(d) == ReplaceSpace(Strip(ReSub(Prefix(d, DescCap))))
SafeDesc(d) == ReplaceSpace(Strip(Prefix(ReSub(d), DescCap)))

\* sub occurs in s at position k
OccursAt(s, sub, k) ==
    /\ k >= 1
    /\ k + Len(sub) - 1 <= Len(s)
    /\ \A j \in 1..Len(sub) : s[k + j - 1] = sub[j]

\* the Python test  sub in s
Contains(s, sub) == \E k \in 1..(Len(s) + 1) : OccursAt(s, sub, k)

\* str.split(sep): the pieces between the occurrences of sep, found left
\* to right without overlap
RECURSIVE SplitFrom(_, _, _, _)
SplitFrom(s, sep, start, k) ==
    IF k + Len(sep) - 1 > Len(s)
    THEN << SubSeq(s, start, Len(s)) >>
    ELSE IF OccursAt(s, sep, k)
         THEN << SubSeq(s, start, k - 1) >>
              \o SplitFrom(s, sep, k + Len(sep), k + Len(sep))
         ELSE SplitFrom(s, sep, start, k + 1)

Split(s, sep) == SplitFrom(s, sep, 1, 1)

\* the fixed text consult_style_expert puts in front of the Stylist's output
Marker == <<"S","t","y","l","e"," ","e","x","p","e","r","t","'","s"," ",
            "r","e","f","i","n","e","d"," ","p","r","o","m","p","t",":">>

\* return f"Style expert's refined prompt: {result.output}"
Wrap(out) == Marker \o <<" ">> \o out

\* actual_prompt of generate_icon_image
ActualPromptPrefixOnly(refined_prompt) ==
    IF OccursAt(refined_prompt, Marker, 1)
    THEN Strip(SubSeq(refined_prompt, Len(Marker) + 1, Len(refined_prompt)))
    ELSE refined_prompt
ActualPromptNoStrip(refined_prompt) ==
    IF Contains(refined_prompt, Marker)
    THEN LET parts == Split(refined_prompt, Marker)
         IN  parts[Len(parts)]
    ELSE refined_prompt
ActualPrompt(refined_prompt) ==
    IF Contains(refined_prompt, Marker)
    THEN LET parts == Split(refined_prompt, Marker)
         IN  Strip(parts[Len(parts)])
    ELSE refined_prompt

\* decimal digits of a natural number
RECURSIVE Decimal(_)
Decimal(n) ==
    LET d == <<"0","1","2","3","4","5","6","7","8","9">>[(n % 10) + 1]
    IN  IF n < 10 THEN << d >> ELSE Decimal(n \div 10) \o << d >>

\* str() of the float returned by the event loop's clock, for a whole
\* number of ticks
FmtTime(t) == Decimal(t) \o <<".", "0">>

\* filename = f"icon_{safe_style}_{safe_desc}_{safe_timestamp}.png"
FilenameNoStamp(art_style, description, t) ==
    <<"i","c","o","n","_">> \o SafeStyle(art_style) \o <<"_">>
        \o SafeDesc(description) \o <<".","p","n","g">>
Filename(art_style, description, t) ==
    <<"i","c","o","n","_">> \o SafeStyle(art_style) \o <<"_">>
        \o SafeDesc(description) \o <<"_">> \o FmtTime(t)
        \o <<".","p","n","g">>


(* ------------------------------ inputs -------------------------------- *)
S_minimalist == <<"m","i","n","i","m","a","l","i","s","t">>
S_pixel_art == <<"p","i","x","e","l"," ","a","r","t">>
S_8bit == <<" ","8","-","b","i","t","!"," ">>

D_coffee == <<"a"," ","h","o","t"," ","c","u","p"," ","o","f"," ",
              "c","o","f","f","e","e">>
D_rocket == <<"a"," ","r","e","t","r","o"," ","r","o","c","k","e","t"," ",
              "s","h","i","p",","," ","l","a","u","n","c","h","i","n","g",
              "!">>
D_long == <<"a","n"," ","e","x","t","r","e","m","e","l","y"," ",
            "d","e","t","a","i","l","e","d"," ","m","o","u","n","t","a","i",
            "n"," ","l","a","n","d","s","c","a","p","e">>
D_tab == <<"c","a","t","\t","d","o","g"," ">>
D_mixed == <<"a"," ","r","e","t","r","o","-","r","o","c","k","e","t",",",
             "\t","l","a","u","n","c","h","i","n","g","!">>

\* values of --style
Styles == {S_minimalist, S_8bit}
\* values of --description
Descriptions == {D_coffee, D_rocket}

\* generated texts: every text of at most n characters over a small
\* alphabet of kept, removed, blank and replaced characters
Alphabet == {"a", " ", "_", "-", "!", "\t"}
Texts(n) == UNION {[1..k -> Alphabet] : k \in 0..n}

\* one character short of the cap of the description
D_base == <<"t","w","e","n","t","y"," ","n","i","n","e"," ","c","h","a",
            "r","a","c","t","e","r","s"," ","o","f"," ","x","-","y">>

\* values of --style and --description for the text properties
TextStyles == Styles \cup {S_pixel_art} \cup Texts(MaxText)
TextDescriptions ==
    Descriptions \cup {D_long, D_tab, D_mixed} \cup Texts(MaxText)
        \cup {D_base \o x : x \in Texts(MaxText)}

\* outputs of the Stylist run (result.output)
O_cup == <<"f","l","a","t"," ","c","u","p">>
O_echo == Marker \o <<" ","c","a","t","\n">>
O_pad == <<" ","r","e","d"," ","f","o","x","\n">>
StylistOutputs == {O_cup, O_echo, O_pad}

\* texts the language model passes as refined_prompt on its own account
P_plain == <<"a"," ","c","u","p">>
P_mid == <<"U","s","e",":"," ">> \o Marker \o <<" ","n","e","o","n"," ">>
P_twice == Marker \o <<" ","x"," ">> \o Marker \o <<" ","y">>
P_only == Marker
FreePrompts == {P_plain, P_mid, P_twice, P_only}

\* width and height of the downloaded image
SourceSizes == {<<1024, 1024>>, <<1792, 1024>>, <<64, 32>>}

\* size of image.resize((128, 128), Image.Resampling.LANCZOS)
ResizedKeepAspect(size) == <<IconSize, (size[2] * IconSize) \div size[1]>>
Resized(size) == <<IconSize, IconSize>>

(* ------------------------------- state -------------------------------- *)
VARIABLES
    art_style,      \* args.style
    description,    \* args.description
    count,          \* args.count
    mainPc,         \* position of main
    i,              \* loop variable of main
    tasks,          \* the create_icon calls, by number
    nextCtx,        \* number of IconRequest objects constructed so far
    dirExists,      \* the directory "output" exists
    files,          \* the files of the directory "output"
    now             \* the event loop's clock

vars == <<art_style, description, count, mainPc, i, tasks, nextCtx,
          dirExists, files, now>>

TaskIds == 1..MaxCount

NoTask == [st |-> "idle", pc |-> "none", ctx |-> 0,
           consultCalls |-> 0, consultOk |-> 0, genCalls |-> 0, genOk |-> 0,
           wrapped |-> <<>>, refined_prompt |-> <<>>, actual_prompt |-> <<>>,
           session |-> FALSE, image_data |-> <<>>, image |-> <<>>,
           safe_style |-> <<>>, safe_desc |-> <<>>, filename |-> <<>>,
           err |-> "none"]

Init ==
    /\ art_style \in Styles
    /\ description \in Descriptions
    /\ count \in 0..MaxCount
    /\ mainPc = "args"
    /\ i = 0
    /\ tasks = [t \in TaskIds |-> NoTask]
    /\ nextCtx = 0
    /\ dirExists \in BOOLEAN
    /\ files = {}
    /\ now = 0

\* one icon is requested; the style and the description range over the
\* wider sets of texts, one of the two at a time
InitText ==
    /\ \/ art_style \in TextStyles /\ description = D_coffee
       \/ art_style = S_minimalist /\ description \in TextDescriptions
    /\ count = 1
    /\ mainPc = "args"
    /\ i = 0
    /\ tasks = [t \in TaskIds |-> NoTask]
    /\ nextCtx = 0
    /\ dirExists \in BOOLEAN
    /\ files = {}
    /\ now = 0

Calls(t) == tasks[t].consultCalls + tasks[t].genCalls

\* the task fails: the exception leaves the tool and icon_creator.run
Raise(t, e) == [tasks[t] EXCEPT !.st = "failed", !.pc = "none",
                                !.session = FALSE, !.err = e,
                                !.wrapped = <<>>, !.refined_prompt = <<>>,
                                !.actual_prompt = <<>>,
                                !.image_data = <<>>, !.image = <<>>,
                                !.safe_style = <<>>, !.safe_desc = <<>>,
                                !.filename = <<>>]

(* ------------------------------- main --------------------------------- *)
\* output_dir.mkdir(exist_ok=True)
Mkdir ==
    /\ mainPc = "args"
    /\ dirExists' = TRUE
    /\ mainPc' = "loop"
    /\ UNCHANGED <<art_style, description, count, i, tasks, nextCtx, files,
                   now>>

\* main may enter the next iteration of  for i in range(args.count)
CanStartOverlapping == mainPc \in {"loop", "await"} /\ i < count
CanStart == mainPc = "loop" /\ i < count

\* the IconRequest a call of create_icon works with
DepsShared(n) == 1
Deps(n) == n + 1

\* the next iteration of main's loop, and create_icon up to its await: deps = IconRequest(...); icon_creator.run
StartTask ==
    /\ CanStart
    /\ tasks' = [tasks EXCEPT ![i + 1] =
                    [NoTask EXCEPT !.st = "thinking", !.ctx = Deps(nextCtx)]]
    /\ nextCtx' = nextCtx + 1
    /\ i' = i + 1
    /\ mainPc' = "await"
    /\ UNCHANGED <<art_style, description, count, dirExists, files, now>>

\* create_icon returned result.output and its locals are gone; main prints
\* the result and loops
TaskReturned ==
    /\ mainPc = "await"
    /\ i >= 1
    /\ tasks[i].st = "done"
    /\ tasks' = [tasks EXCEPT ![i] =
                    [NoTask EXCEPT !.st = "returned", !.ctx = tasks[i].ctx]]
    /\ mainPc' = "loop"
    /\ UNCHANGED <<art_style, description, count, i, nextCtx, dirExists,
                   files, now>>

\* create_icon raised; main has no handler, so the exception ends main
TaskRaisedContinue ==
    /\ mainPc = "await"
    /\ i >= 1
    /\ tasks[i].st = "failed"
    /\ mainPc' = "loop"
    /\ UNCHANGED <<art_style, description, count, i, tasks, nextCtx,
                   dirExists, files, now>>
TaskRaised ==
    /\ mainPc = "await"
    /\ i >= 1
    /\ tasks[i].st = "failed"
    /\ mainPc' = "raised"
    /\ UNCHANGED <<art_style, description, count, i, tasks, nextCtx,
                   dirExists, files, now>>

\* range(args.count) is exhausted
LoopExit ==
    /\ mainPc = "loop"
    /\ i >= count
    /\ mainPc' = "exit"
    /\ UNCHANGED <<art_style, description, count, i, tasks, nextCtx,
                   dirExists, files, now>>

(* ------------------------ the Orchestrator run ------------------------ *)
\* the language model calls the tool consult_style_expert, which starts
\* style_expert.run
CallConsult(t) ==
    /\ tasks[t].st = "thinking"
    /\ Calls(t) < MaxCalls
    /\ tasks' = [tasks EXCEPT ![t] =
                    [@ EXCEPT !.st = "consult",
                              !.consultCalls = @ + 1]]
    /\ UNCHANGED <<art_style, description, count, mainPc, i, nextCtx,
                   dirExists, files, now>>

\* style_expert.run completed; the tool returns the wrapped output
ConsultReturn(t) ==
    /\ tasks[t].st = "consult"
    /\ \E out \in StylistOutputs :
          tasks' = [tasks EXCEPT ![t] =
                       [@ EXCEPT !.st = "thinking",
                                 !.consultOk = @ + 1,
                                 !.wrapped = Wrap(out)]]
    /\ UNCHANGED <<art_style, description, count, mainPc, i, nextCtx,
                   dirExists, files, now>>

\* style_expert.run raised
ConsultFail(t) ==
    /\ tasks[t].st = "consult"
    /\ tasks' = [tasks EXCEPT ![t] = Raise(t, "DelegationFailure")]
    /\ UNCHANGED <<art_style, description, count, mainPc, i, nextCtx,
                   dirExists, files, now>>

\* the texts the language model can pass as refined_prompt
PromptArgs(t) ==
    FreePrompts \cup (IF tasks[t].consultOk > 0 THEN {tasks[t].wrapped}
                                                ELSE {})

\* the language model calls the tool generate_icon_image; the tool runs up
\* to its first await, the request to the generation service
CallGenerate(t) ==
    /\ tasks[t].st = "thinking"
    /\ Calls(t) < MaxCalls
    /\ \E rp \in PromptArgs(t) :
          tasks' = [tasks EXCEPT ![t] =
                       [@ EXCEPT !.st = "generate",
                                 !.pc = "service",
                                 !.genCalls = @ + 1,
                                 !.refined_prompt = rp,
                                 !.actual_prompt = ActualPrompt(rp),
                                 !.filename = <<>>]]
    /\ UNCHANGED <<art_style, description, count, mainPc, i, nextCtx,
                   dirExists, files, now>>

\* the language model answers with its final text: icon_creator.run returns
Finish(t) ==
    /\ tasks[t].st = "thinking"
    /\ tasks' = [tasks EXCEPT ![t] =
                    [@ EXCEPT !.st = "done", !.wrapped = <<>>]]
    /\ UNCHANGED <<art_style, description, count, mainPc, i, nextCtx,
                   dirExists, files, now>>

(* --------------------------- image pipeline --------------------------- *)
AtStep(t, step) == tasks[t].st = "generate" /\ tasks[t].pc = step

\* client.images.generate returned; the tool opens the HTTP session and
\* sends the GET for the image (the prompts are not used after this point)
ServiceReturn(t) ==
    /\ AtStep(t, "service")
    /\ tasks' = [tasks EXCEPT ![t] =
                    [@ EXCEPT !.pc = "download", !.session = TRUE,
                              !.refined_prompt = <<>>,
                              !.actual_prompt = <<>>]]
    /\ \E d \in 0..1 : now' = now + d
    /\ UNCHANGED <<art_style, description, count, mainPc, i, nextCtx,
                   dirExists, files>>

\* client.images.generate raised
ServiceFail(t) ==
    /\ AtStep(t, "service")
    /\ tasks' = [tasks EXCEPT ![t] = Raise(t, "GenerationServiceError")]
    /\ UNCHANGED <<art_style, description, count, mainPc, i, nextCtx,
                   dirExists, files, now>>

\* the GET returned a success status with its payload (an image of some
\* size, unless the decode fails); the  async with  block is left
DownloadReturn(t) ==
    /\ AtStep(t, "download")
    /\ \E size \in SourceSizes :
          tasks' = [tasks EXCEPT ![t] =
                       [@ EXCEPT !.pc = "decode", !.session = FALSE,
                                 !.image_data = size]]
    /\ UNCHANGED <<art_style, description, count, mainPc, i, nextCtx,
                   dirExists, files, now>>

\* the GET raised, or raise_for_status() raised on a non-success status;
\* the  async with  block is left by the exception
DownloadFailLeak(t) ==
    /\ AtStep(t, "download")
    /\ tasks' = [tasks EXCEPT ![t] =
                    [Raise(t, "DownloadError") EXCEPT !.session = TRUE]]
    /\ UNCHANGED <<art_style, description, count, mainPc, i, nextCtx,
                   dirExists, files, now>>
DownloadFail(t) ==
    /\ AtStep(t, "download")
    /\ tasks' = [tasks EXCEPT ![t] = Raise(t, "DownloadError")]
    /\ UNCHANGED <<art_style, description, count, mainPc, i, nextCtx,
                   dirExists, files, now>>

\* image = Image.open(BytesIO(image_data))
Decode(t) ==
    /\ AtStep(t, "decode")
    /\ tasks' = [tasks EXCEPT ![t] =
                    [@ EXCEPT !.pc = "resize", !.image = tasks[t].image_data]]
    /\ UNCHANGED <<art_style, description, count, mainPc, i, nextCtx,
                   dirExists, files, now>>

\* Image.open raised: the payload is not an image
DecodeFailSwallowed(t) ==
    /\ AtStep(t, "decode")
    /\ tasks' = [tasks EXCEPT ![t] =
                    [@ EXCEPT !.pc = "save",
                              !.filename =
                                  Filename(art_style, description, now)]]
    /\ UNCHANGED <<art_style, description, count, mainPc, i, nextCtx,
                   dirExists, files, now>>
DecodeFail(t) ==
    /\ AtStep(t, "decode")
    /\ tasks' = [tasks EXCEPT ![t] = Raise(t, "DecodeError")]
    /\ UNCHANGED <<art_style, description, count, mainPc, i, nextCtx,
                   dirExists, files, now>>

\* image = image.resize((128, 128), ...)
Resize(t) ==
    /\ AtStep(t, "resize")
    /\ tasks' = [tasks EXCEPT ![t] =
                    [@ EXCEPT !.pc = "name", !.image = Resized(@)]]
    /\ UNCHANGED <<art_style, description, count, mainPc, i, nextCtx,
                   dirExists, files, now>>

\* safe_style, safe_desc, safe_timestamp and filename are computed
ComputeName(t) ==
    /\ AtStep(t, "name")
    /\ tasks' = [tasks EXCEPT ![t] =
                    [@ EXCEPT !.pc = "save",
                              !.safe_style = SafeStyle(art_style),
                              !.safe_desc = SafeDesc(description),
                              !.filename =
                                  Filename(art_style, description, now)]]
    /\ UNCHANGED <<art_style, description, count, mainPc, i, nextCtx,
                   dirExists, files, now>>

\* image.resize raised
ResizeFail(t) ==
    /\ AtStep(t, "resize")
    /\ tasks' = [tasks EXCEPT ![t] = Raise(t, "ResizeError")]
    /\ UNCHANGED <<art_style, description, count, mainPc, i, nextCtx,
                   dirExists, files, now>>

\* the directory's files once name is created or truncated by task t
Opened(name, t) ==
    {f \in files : f.name # name}
        \cup {[name |-> name, complete |-> FALSE, by |-> t,
                size |-> <<>>]}

\* image.save(filepath, "PNG") opens filepath for writing
SaveOpen(t) ==
    /\ AtStep(t, "save")
    /\ dirExists
    /\ files' = Opened(tasks[t].filename, t)
    /\ tasks' = [tasks EXCEPT ![t] = [@ EXCEPT !.pc = "write"]]
    /\ UNCHANGED <<art_style, description, count, mainPc, i, nextCtx,
                   dirExists, now>>

\* image.save cannot open filepath: the directory is missing or unwritable
SaveOpenFail(t) ==
    /\ AtStep(t, "save")
    /\ tasks' = [tasks EXCEPT ![t] = Raise(t, "FilesystemError")]
    /\ UNCHANGED <<art_style, description, count, mainPc, i, nextCtx,
                   dirExists, files, now>>

\* image.save wrote the whole PNG; the tool returns its confirmation
SaveWrite(t) ==
    /\ AtStep(t, "write")
    /\ files' = {IF f.name = tasks[t].filename
                 THEN [f EXCEPT !.complete = TRUE, !.size = tasks[t].image]
                 ELSE f : f \in files}
    /\ tasks' = [tasks EXCEPT ![t] =
                    [@ EXCEPT !.st = "thinking", !.pc = "none",
                              !.genOk = @ + 1,
                              !.image_data = <<>>, !.image = <<>>,
                              !.safe_style = <<>>, !.safe_desc = <<>>,
                              !.filename = <<>>]]
    /\ UNCHANGED <<art_style, description, count, mainPc, i, nextCtx,
                   dirExists, now>>

\* image.save raised while encoding into the open file; the imaging
\* library removes the file or leaves what was written so far
SaveWriteFail(t) ==
    /\ AtStep(t, "write")
    /\ \/ files' = files
       \/ files' = {f \in files : f.name # tasks[t].filename}
    /\ tasks' = [tasks EXCEPT ![t] = Raise(t, "FilesystemError")]
    /\ UNCHANGED <<art_style, description, count, mainPc, i, nextCtx,
                   dirExists, now>>

(* --------------------------- specification ---------------------------- *)
\* the steps of a program that calls create_icon
Run ==
    \/ StartTask
    \/ TaskReturned
    \/ TaskRaised
    \/ LoopExit
    \/ \E t \in TaskIds :
          \/ CallConsult(t)
          \/ ConsultReturn(t)
          \/ ConsultFail(t)
          \/ CallGenerate(t)
          \/ Finish(t)
          \/ ServiceReturn(t)
          \/ ServiceFail(t)
          \/ DownloadReturn(t)
          \/ DownloadFail(t)
          \/ Decode(t)
          \/ DecodeFail(t)
          \/ Resize(t)
          \/ ResizeFail(t)
          \/ ComputeName(t)
          \/ SaveOpen(t)
          \/ SaveOpenFail(t)
          \/ SaveWrite(t)
          \/ SaveWriteFail(t)

Next == Mkdir \/ Run

Spec == Init /\ [][Next]_vars

\* create_icon is awaited once by a caller other than main: nothing has
\* created the directory "output"
InitDirect ==
    /\ art_style \in Styles
    /\ description \in Descriptions
    /\ count = 1
    /\ mainPc = "loop"
    /\ i = 0
    /\ tasks = [t \in TaskIds |-> NoTask]
    /\ nextCtx = 0
    /\ dirExists \in BOOLEAN
    /\ files = {}
    /\ now = 0

SpecDirect == InitDirect /\ [][Run]_vars

SpecText == InitText /\ [][Next]_vars

TypeOK ==
    /\ art_style \in TextStyles
    /\ description \in TextDescriptions
    /\ count \in 0..MaxCount
    /\ mainPc \in {"args", "loop", "await", "exit", "raised"}
    /\ i \in 0..MaxCount
    /\ dirExists \in BOOLEAN
    /\ \A t \in TaskIds :
          /\ tasks[t].st \in {"idle", "thinking", "consult", "generate",
                              "done", "returned", "failed"}
          /\ tasks[t].pc \in {"none", "service", "download", "decode",
                              "resize", "name", "save", "write"}
    /\ \A f \in files : f.complete \in BOOLEAN /\ f.by \in TaskIds

(* ------------------------------ claims -------------------------------- *)
\* the files of the output directory that task t created or truncated
FilesBy(t) == {f \in files : f.by = t}

\* C1: in every task at most one generate_icon_image call is made, a call
\* is made only when exactly one consult_style_expert call of the task has
\* been made and has returned, and a task that returned made exactly one
\* generate_icon_image call.
C1_ExactlyOneGenerateAfterConsult ==
    \A t \in TaskIds :
        /\ tasks[t].genCalls <= 1
        /\ tasks[t].st = "generate" =>
               tasks[t].consultCalls = 1 /\ tasks[t].consultOk = 1
        /\ tasks[t].st = "done" =>
               tasks[t].genCalls = 1 /\ tasks[t].consultOk = 1

\* C2: a task is Done (create_icon returned) only if a generate_icon_image
\* call of the task has returned successfully, and it is generating only if
\* a consult_style_expert call of the task has returned successfully.
C2_StateMachineOrder ==
    \A t \in TaskIds :
        /\ tasks[t].st = "done" => tasks[t].genOk >= 1
        /\ tasks[t].st = "generate" => tasks[t].consultOk >= 1

\* C3: whatever refined_prompt generate_icon_image is called with, the
\* prompt it hands to the generation service does not contain the marker.
C3_NoMarkerInPrompt ==
    \A t \in TaskIds :
        AtStep(t, "service") =>
            ~ Contains(tasks[t].actual_prompt, Marker)

\* C3 witness: a request is in flight for a refined_prompt that holds the
\* marker, not as a prefix, and from which the marker has been removed.
C3_Witness ==
    \E t \in TaskIds :
        /\ AtStep(t, "service")
        /\ Contains(tasks[t].refined_prompt, Marker)
        /\ ~ OccursAt(tasks[t].refined_prompt, Marker, 1)
        /\ tasks[t].actual_prompt # tasks[t].refined_prompt

\* C4: in every reachable state every file of the output directory holds a
\* complete PNG (a file is never there half-written).
C4_NoPartialFile == \A f \in files : f.complete

\* C5: a task that failed in the service call, the download, the decode or
\* the resize has failed for its caller and has written no file.
C5_PipelineFailureWritesNothing ==
    \A t \in TaskIds :
        tasks[t].err \in {"GenerationServiceError", "DownloadError",
                          "DecodeError", "ResizeError"} =>
            /\ tasks[t].st = "failed"
            /\ FilesBy(t) = {}

\* C6: a task whose consult_style_expert failed has failed and has written
\* no file.
C6_ConsultFailureWritesNothing ==
    \A t \in TaskIds :
        tasks[t].err = "DelegationFailure" =>
            /\ tasks[t].st = "failed"
            /\ FilesBy(t) = {}

\* the task runs main has started
Started == {t \in TaskIds : tasks[t].st # "idle"}

\* every started run has an IconRequest of its own
FreshContexts ==
    \A t \in Started :
        /\ tasks[t].ctx # 0
        /\ \A u \in Started : u # t => tasks[u].ctx # tasks[t].ctx

\* C7 (as stated): when main has ended, it has performed exactly
\* args.count task runs, each with an IconRequest of its own.
C7_ExactlyCountRuns ==
    /\ mainPc \in {"exit", "raised"} => Cardinality(Started) = count
    /\ FreshContexts

\* C7 (amended): main performs at most args.count task runs; exactly
\* args.count, all of which returned to main, when it ends normally; it
\* ends with the exception of the first run that fails; every run has an
\* IconRequest of its own.
C7_RunsUpToFirstFailure ==
    /\ Started = 1..i
    /\ i <= count
    /\ mainPc = "exit" =>
           i = count /\ \A t \in 1..i : tasks[t].st = "returned"
    /\ mainPc = "raised" =>
           /\ i >= 1
           /\ tasks[i].st = "failed"
           /\ \A t \in 1..(i - 1) : tasks[t].st = "returned"
    /\ FreshContexts

\* C7 witness: main ended normally after two or more runs.
C7_Witness ==
    /\ mainPc = "exit"
    /\ count >= 2
    /\ Cardinality(Started) = count

\* the tasks whose run is in progress
Running == {t \in TaskIds :
               tasks[t].st \in {"thinking", "consult", "generate"}}

\* C8: at most one task is in progress, at most one pipeline step is in
\* progress, and a task is started only when the task before it is over.
C8_TasksDoNotOverlap ==
    /\ Cardinality(Running) <= 1
    /\ Cardinality({t \in TaskIds : tasks[t].pc # "none"}) <= 1
    /\ \A t \in Started :
           t > 1 => tasks[t - 1].st \in {"returned", "failed"}

\* C8 witness: the second task is in the pipeline, the first one is over.
C8_Witness ==
    /\ count >= 2
    /\ tasks[1].st = "returned"
    /\ tasks[2].st = "generate"

\* text of the file names
IconPrefix == <<"i","c","o","n","_">>
PngSuffix == <<".","p","n","g">>

\* C9 (as stated): every file is named icon_{style}_{description}.png.
C9_NameWithoutDiscriminator ==
    \A f \in files :
        f.name = IconPrefix \o SafeStyle(art_style) \o <<"_">>
                     \o SafeDesc(description) \o PngSuffix

\* C9 (amended): every file is named
\* icon_{style}_{description}_{time}.png, time being a value the event
\* loop's clock has had; for "minimalist" and "a hot cup of coffee" that is
\* icon_minimalist_a_hot_cup_of_coffee_{time}.png.
C9_NameWithTime ==
    \A f \in files :
        \E time \in 0..now :
            /\ f.name = (IconPrefix \o SafeStyle(art_style) \o <<"_">>
                             \o SafeDesc(description) \o <<"_">>)
                            \o FmtTime(time) \o PngSuffix
            /\ art_style = S_minimalist /\ description = D_coffee =>
                   f.name =
                       <<"i","c","o","n","_","m","i","n","i","m","a","l",
                         "i","s","t","_","a","_","h","o","t","_","c","u",
                         "p","_","o","f","_","c","o","f","f","e","e","_">>
                           \o FmtTime(time) \o PngSuffix

\* C9 witness: the file of "minimalist" / "a hot cup of coffee" is written.
C9_Witness ==
    /\ art_style = S_minimalist
    /\ description = D_coffee
    /\ \E f \in files : f.complete

\* C10: sanitizing a sanitized style, or a sanitized description, returns
\* it unchanged.
C10_SanitizeIdempotent ==
    /\ SafeStyle(SafeStyle(art_style)) = SafeStyle(art_style)
    /\ SafeDesc(SafeDesc(description)) = SafeDesc(description)

\* C10 witness: a file name has been computed from a description that the
\* sanitizer cuts and changes.
C10_Witness ==
    \E t \in TaskIds :
        /\ AtStep(t, "save")
        /\ Len(ReSub(description)) > DescCap
        /\ SafeDesc(description) # Prefix(description, DescCap)

\* task t has computed its file name and not yet returned
NameComputed(t) == tasks[t].st = "generate" /\ tasks[t].pc \in {"save", "write"}

\* the characters of a text
Chars(s) == {s[k] : k \in 1..Len(s)}

C12_CutBeforeUnderscores ==
    \A t \in TaskIds :
        NameComputed(t) /\ Len(description) > DescCap =>
            LET cut == Strip(Prefix(ReSub(description), DescCap))
                seg == tasks[t].safe_desc
            IN  /\ Len(seg) <= DescCap
                /\ Len(seg) = Len(cut)
                /\ \A k \in 1..Len(seg) :
                       seg[k] = (IF cut[k] = " " THEN "_" ELSE cut[k])

\* C12 witness: the 30th kept character of a longer description is a space.
C12_Witness ==
    \E t \in TaskIds :
        /\ NameComputed(t)
        /\ Len(ReSub(description)) > DescCap
        /\ ReSub(description)[DescCap] = " "
        /\ Len(tasks[t].safe_desc) < DescCap

\* C15 (as stated): the segment is the 30-character prefix of the original
\* description with the disallowed characters removed and the spaces
\* replaced by underscores.
C15_StripAfterCut ==
    \A t \in TaskIds :
        NameComputed(t) =>
            tasks[t].safe_desc
                = ReplaceSpace(ReSub(Prefix(description, DescCap)))

\* C15 (amended): the disallowed characters are removed from the whole
\* description first, the result is cut to its first 30 characters and
\* trimmed of whitespace at both ends, and then the spaces are replaced.
C15_CutAfterStrip ==
    \A t \in TaskIds :
        NameComputed(t) =>
            tasks[t].safe_desc
                = ReplaceSpace(Strip(Prefix(SelectSeq(description, Keep),
                                            DescCap)))

\* C15 witness: a removed character lies within the first 30 characters of
\* a description whose kept characters fill the segment.
C15_Witness ==
    \E t \in TaskIds :
        /\ NameComputed(t)
        /\ Len(description) > DescCap
        /\ "!" \in Chars(Prefix(description, DescCap))
        /\ Len(tasks[t].safe_desc) = DescCap

\* C13: every saved file holds an image of 128x128 pixels, and so does the
\* image of every task that is about to save, whatever the size of the
\* downloaded image.
C13_SavedImageIs128 ==
    /\ \A f \in files : f.complete => f.size = <<128, 128>>
    /\ \A t \in TaskIds :
           tasks[t].pc \in {"name", "save", "write"} =>
               tasks[t].image = <<128, 128>>

\* C13 witness: a task writes the file of a download that was not square
\* and not 128 pixels wide.
C13_Witness ==
    \E t \in TaskIds :
        /\ AtStep(t, "write")
        /\ tasks[t].image_data[1] # tasks[t].image_data[2]
        /\ tasks[t].image_data[1] # 128

\* C14: a task is in, or has failed at, the persist step only with the
\* output directory present (the pipeline has created it if it was absent).
C14_MissingDirectoryIsCreated ==
    \A t \in TaskIds :
        AtStep(t, "write") \/ tasks[t].err = "FilesystemError"
            => dirExists

\* the steps of generate_icon_image in the order of the code
StepOrder == <<"service", "download", "decode", "resize", "name", "save",
               "write">>

\* C16: within an invocation the position moves only from a step to the
\* next one of service, download, decode, resize, name, save (open), write,
\* an invocation starts at the service request, it ends after the write or
\* with the failure of the task, a failed task does nothing more, and the
\* directory changes only in the save and write steps.
C16_StepsInOrder ==
    [][ /\ \A t \in TaskIds :
              LET a == tasks[t].pc
                  b == tasks'[t].pc
              IN  /\ a # b =>
                        \/ /\ a = "none"
                           /\ b = "service"
                           /\ tasks'[t].genCalls = tasks[t].genCalls + 1
                        \/ \E k \in 1..(Len(StepOrder) - 1) :
                               a = StepOrder[k] /\ b = StepOrder[k + 1]
                        \/ /\ a = "write"
                           /\ b = "none"
                           /\ tasks'[t].genOk = tasks[t].genOk + 1
                        \/ b = "none" /\ tasks'[t].st = "failed"
                  /\ tasks[t].st = "failed" => tasks'[t] = tasks[t]
        /\ files' # files =>
              \E t \in TaskIds : tasks[t].pc \in {"save", "write"}
      ]_vars

\* C16 witness: an invocation has reached the write step.
C16_Witness == \E t \in TaskIds : AtStep(t, "write")

\* C17: the HTTP session is open only while the download is in progress:
\* not in the later steps, not after the tool returned, not after a failure.
C17_SessionReleased ==
    \A t \in TaskIds :
        tasks[t].session => AtStep(t, "download")

\* C17 witness: a download has failed.
C17_Witness ==
    \E t \in TaskIds :
        /\ tasks[t].err = "DownloadError"
        /\ ~ tasks[t].session

\* C18 (as stated): when refined_prompt is the return value of
\* consult_style_expert for a Stylist output p, the prompt sent is p
\* without its leading and trailing whitespace; a refined_prompt without
\* the marker is sent unchanged.
C18_RoundTripExact ==
    \A t \in TaskIds :
        AtStep(t, "service") =>
            /\ \A p \in StylistOutputs :
                   tasks[t].refined_prompt = Wrap(p) =>
                       tasks[t].actual_prompt = Strip(p)
            /\ ~ Contains(tasks[t].refined_prompt, Marker) =>
                   tasks[t].actual_prompt = tasks[t].refined_prompt

\* the text of p after position k
After(p, k) == SubSeq(p, k + 1, Len(p))

\* C18 (amended): for a Stylist output p without the marker the prompt sent
\* is p without its leading and trailing whitespace; for a p that holds the
\* marker it is the trimmed text after the last marker of p; a
\* refined_prompt without the marker is sent unchanged.
C18_RoundTripLastMarker ==
    \A t \in TaskIds :
        AtStep(t, "service") =>
            /\ \A p \in StylistOutputs :
                   tasks[t].refined_prompt = Wrap(p) =>
                       IF Contains(p, Marker)
                       THEN \E k \in 1..Len(p) :
                               /\ OccursAt(p, Marker, k)
                               /\ ~ Contains(After(p, k), Marker)
                               /\ tasks[t].actual_prompt =
                                      Strip(After(p, k + Len(Marker) - 1))
                       ELSE tasks[t].actual_prompt = Strip(p)
            /\ ~ Contains(tasks[t].refined_prompt, Marker) =>
                   tasks[t].actual_prompt = tasks[t].refined_prompt

\* C18 witness: the return value of consult_style_expert for a Stylist
\* output with whitespace at both ends is passed on.
C18_Witness ==
    \E t \in TaskIds :
        /\ AtStep(t, "service")
        /\ tasks[t].refined_prompt = Wrap(O_pad)
        /\ tasks[t].refined_prompt = tasks[t].wrapped

\* C19: no task is about to write under the name of a file that another
\* task of the run has written (the names of two tasks differ).
C19_DistinctNames ==
    \A t \in TaskIds :
        AtStep(t, "save") =>
            \A f \in files : f.by # t => f.name # tasks[t].filename

\* the tasks that have failed
Failed == {t \in TaskIds : tasks[t].st = "failed"}

\* C20 (as stated): when a task has failed, fewer than args.count runs
\* have been started and no later task is started.
C20_FailureMeansFewerRuns ==
    \A k \in Failed :
        /\ Cardinality(Started) < count
        /\ \A t \in TaskIds : t > k => tasks[t].st = "idle"

\* C20 (amended): when task k has failed it is the last task started, the
\* tasks before it have returned, main is waiting for it or has ended with
\* its exception, and fewer than args.count runs have been started unless
\* k is the last one; from then on no task is started and no file changes.
C20_AbortBatch ==
    /\ [](\A k \in Failed :
              /\ k = i
              /\ mainPc \in {"await", "raised"}
              /\ Started = 1..k
              /\ \A t \in 1..(k - 1) : tasks[t].st = "returned"
              /\ k < count => Cardinality(Started) < count)
    /\ [][Failed # {} => /\ files' = files
                         /\ tasks' = tasks
                         /\ mainPc' = "raised"]_vars

\* C20 witness: main has ended with the exception of a task that is not
\* the last one requested.
C20_Witness ==
    /\ mainPc = "raised"
    /\ i < count
    /\ Failed = {i}

=============================================================================
